---- MODULE Spec2Model ----
(***************************************************************************)
(* Karu_FM: a terminal file browser (src/src/main.rs).                     *)
(*                                                                         *)
(* The model holds the App struct, the file system the browser acts on,    *)
(* the calls made to the trash service and whether the event loop is still *)
(* running.  One action stands for one iteration of the loop of run_app:   *)
(* the draw (ui) followed by the handler of one key or mouse event.        *)
(*                                                                         *)
(* Text is a sequence of one-character strings.  A PathBuf is a record     *)
(*   [abs, comps, slash]: whether it starts at the root, its components as *)
(* std::path::Components yields them, and whether its text ends with a     *)
(* separator (which the operating system reads as "must be a directory").  *)
(* A node of the file system is the sequence of names from the root.       *)
(***************************************************************************)
EXTENDS Integers, Sequences, FiniteSets, TLC

VARIABLES
    app,      \* struct App
    fs,       \* the file system: node -> [kind, content]
    trashed,  \* the paths handed to trash::delete, in order
    status,   \* "running", "exited" (run_app returned Ok) or "panicked"
    budget    \* events the user will still send; -1: as many as they like

vars == <<app, fs, trashed, status, budget>>

----------------------------------------------------------------------------
(* Bounds of the model *)

\* longest text a buffer is allowed to grow to by typing
MaxLen == 2
\* longest navigation history
MaxHist == 4
\* most nodes the file system may hold
MaxNodes == 6
\* events of a run in which the user sends only so many
MaxEvents == 4
\* most calls of the trash service in a run
MaxTrash == 2
\* events of a run of file operations
MaxOps == 8
\* columns of the address bar a mouse click can land on (0 .. MaxCol)
MaxCol == 1
\* rows of the file list a mouse click can land on (0 .. MaxRow)
MaxRow == 3

\* events of a run over a drawn directory
MaxListEvents == 5

\* events of a run that creates an entry and deletes it
MaxRoundEvents == 7

\* the characters the keyboard sends in a run
KeyChars == {"a", "/", "."}

----------------------------------------------------------------------------
(* Text *)

\* Unicode scalar value of the characters that occur in the model
Letters ==
    <<"a", "b", "c", "d", "e", "f", "g", "h", "i", "j", "k", "l", "m",
      "n", "o", "p", "q", "r", "s", "t", "u", "v", "w", "x", "y", "z">>

Code(c) ==
    IF \E i \in 1..Len(Letters) : Letters[i] = c
    THEN 96 + (CHOOSE i \in 1..Len(Letters) : Letters[i] = c)
    ELSE CASE c = "-" -> 45 [] c = "." -> 46 [] c = "/" -> 47 [] c = "4" -> 52
           [] c = "A" -> 65 [] c = "B" -> 66
           [] c = "_" -> 95 [] c = "~" -> 126 [] c = "E'" -> 201 [] c = "e'" -> 233

\* char::is_ascii
is_ascii(c) == Code(c) < 128

\* char::to_lowercase
LowerChar(c) ==
    CASE c = "A" -> "a" [] c = "B" -> "b" [] c = "E'" -> "e'" [] OTHER -> c

\* str::to_lowercase
to_lowercase(s) == [i \in 1..Len(s) |-> LowerChar(s[i])]

\* Ord for str: lexicographic on the scalar values; -1, 0, 1
RECURSIVE StrCmp(_, _)
StrCmp(s, t) ==
    IF s = <<>> /\ t = <<>> THEN 0
    ELSE IF s = <<>> THEN -1
    ELSE IF t = <<>> THEN 1
    ELSE IF Code(s[1]) < Code(t[1]) THEN -1
    ELSE IF Code(s[1]) > Code(t[1]) THEN 1
    ELSE StrCmp(Tail(s), Tail(t))

\* str::starts_with(char)
starts_with(s, c) == s # <<>> /\ s[1] = c

\* contains as it would be if it compared without regard to case
contains_ignoring_case(s, t) ==
    \E k \in 0..(Len(s) - Len(t)) :
        to_lowercase(SubSeq(s, k + 1, k + Len(t))) = to_lowercase(t)

\* str::contains(&str): t occurs in s as a contiguous run of characters
contains(s, t) ==
    \E i \in 1..(Len(s) - Len(t) + 1) : SubSeq(s, i, i + Len(t) - 1) = t

\* String::pop
pop(s) == IF s = <<>> THEN s ELSE SubSeq(s, 1, Len(s) - 1)

\* String::insert(idx, c), for idx <= len
insert(s, idx, c) == SubSeq(s, 1, idx) \o <<c>> \o SubSeq(s, idx + 1, Len(s))

\* String::remove(idx), for idx < len
remove(s, idx) == SubSeq(s, 1, idx) \o SubSeq(s, idx + 2, Len(s))

DotDot == <<".", ".">>
Dot == <<".">>

----------------------------------------------------------------------------
(* Paths: std::path *)

\* the text between separators, empty pieces included
RECURSIVE Split(_)
Split(s) ==
    LET Cons(c, r) ==
            IF c = "/" THEN << <<>> >> \o r ELSE << <<c>> \o r[1] >> \o Tail(r)
    IN IF s = <<>> THEN << <<>> >> ELSE Cons(s[1], Split(Tail(s)))

RECURSIVE DropEmptyAndDot(_, _)
DropEmptyAndDot(segs, first) ==
    IF segs = <<>> THEN <<>>
    ELSE IF segs[1] = <<>> THEN DropEmptyAndDot(Tail(segs), first)
    ELSE IF segs[1] = Dot /\ ~first THEN DropEmptyAndDot(Tail(segs), FALSE)
    ELSE <<segs[1]>> \o DropEmptyAndDot(Tail(segs), FALSE)

\* PathBuf::from(text), seen through Path::components: repeated separators
\* and "." after the first component vanish, ".." stays
PathFrom(s) ==
    LET Path(isAbs, segs, cs) ==
            [abs |-> isAbs,
             comps |-> cs,
             slash |-> cs # <<>> /\ segs[Len(segs)] \in {<<>>, Dot} /\ Len(segs) > 1]
        FromSegs(isAbs, segs) == Path(isAbs, segs, DropEmptyAndDot(segs, ~isAbs))
    IN FromSegs(starts_with(s, "/"), Split(s))

RECURSIVE JoinNames(_)
JoinNames(cs) ==
    IF cs = <<>> THEN <<>>
    ELSE IF Len(cs) = 1 THEN cs[1]
    ELSE cs[1] \o <<"/">> \o JoinNames(Tail(cs))

\* Path::to_str
to_str(p) ==
    (IF p.abs THEN <<"/">> ELSE <<>>) \o JoinNames(p.comps)
        \o (IF p.slash THEN <<"/">> ELSE <<>>)

\* Path::join(text): an absolute argument replaces the path, an empty one
\* adds a trailing separator
join(p, s) ==
    LET Joined(q, rest) ==
            [abs |-> p.abs,
             comps |-> p.comps \o rest,
             slash |-> IF rest = <<>> THEN (p.comps # <<>>) ELSE q.slash]
        Onto(q) ==
            IF q.abs THEN q
            ELSE IF q.comps = <<>> THEN [p EXCEPT !.slash = (p.comps # <<>>)]
            ELSE Joined(q, IF (p.abs \/ p.comps # <<>>) /\ q.comps[1] = Dot
                           THEN Tail(q.comps) ELSE q.comps)
    IN Onto(PathFrom(s))

\* Path::parent: None ("has" false) for the root and for the empty path
parent(p) ==
    IF p.comps = <<>> THEN [has |-> FALSE, path |-> p]
    ELSE [has |-> TRUE,
          path |-> [abs |-> p.abs,
                    comps |-> SubSeq(p.comps, 1, Len(p.comps) - 1),
                    slash |-> FALSE]]

\* Path::file_name: None ("has" false) when the path ends in ".." or is the
\* root or empty
file_name(p) ==
    IF p.comps = <<>> \/ p.comps[Len(p.comps)] = DotDot
       \/ (p.comps = <<Dot>>)
    THEN [has |-> FALSE, name |-> <<>>]
    ELSE [has |-> TRUE, name |-> p.comps[Len(p.comps)]]

\* Path::ends_with("/"): compares whole components, so it holds of the root
\* only
ends_with_sep(p) == p.abs /\ p.comps = <<>>

----------------------------------------------------------------------------
(* The file system: std::fs as the browser uses it *)

\* the working directory of the process (env::current_dir at start-up);
\* relative paths are resolved against it
Cwd == <<>>

DirNode == [kind |-> "dir", content |-> <<>>]
FileNode(c) == [kind |-> "file", content |-> c]

IsDirNode(f, n) == n \in DOMAIN f /\ f[n].kind = "dir"
IsFileNode(f, n) == n \in DOMAIN f /\ f[n].kind = "file"

IsPrefix(a, b) == Len(a) <= Len(b) /\ SubSeq(b, 1, Len(a)) = a

Children(f, d) == {n \in DOMAIN f : Len(n) = Len(d) + 1 /\ IsPrefix(d, n)}

Under(f, d) == {n \in DOMAIN f : IsPrefix(d, n)}

Without(f, gone) == [n \in DOMAIN f \ gone |-> f[n]]

\* path resolution by the operating system: every component but the last
\* names an existing directory
RECURSIVE Walk(_, _, _)
Walk(f, at, cs) ==
    IF cs = <<>> THEN [ok |-> TRUE, at |-> at]
    ELSE IF ~IsDirNode(f, at) THEN [ok |-> FALSE, at |-> at]
    ELSE IF cs[1] = Dot THEN Walk(f, at, Tail(cs))
    ELSE IF cs[1] = DotDot THEN Walk(f, pop(at), Tail(cs))
    ELSE Walk(f, Append(at, cs[1]), Tail(cs))

Resolve(f, p) ==
    IF ~p.abs /\ p.comps = <<>> THEN [ok |-> FALSE, at |-> <<>>]
    ELSE Walk(f, IF p.abs THEN <<>> ELSE Cwd, p.comps)

\* Path::is_dir
ResolvedDir(f, r) == r.ok /\ IsDirNode(f, r.at)

is_dir(f, p) == ResolvedDir(f, Resolve(f, p))

\* the path names an existing regular file
ResolvedFile(f, r) == r.ok /\ IsFileNode(f, r.at)

is_file(f, p) == ~p.slash /\ ResolvedFile(f, Resolve(f, p))

\* the last component is a plain name (not "..", not the root)
PlainLast(p) == p.comps # <<>> /\ p.comps[Len(p.comps)] \notin {DotDot, Dot}

\* fs::read_dir: the names of the entries, or an error
read_dir(f, p) ==
    LET At(r) ==
            IF ResolvedDir(f, r)
            THEN [ok |-> TRUE, names |-> {n[Len(n)] : n \in Children(f, r.at)}]
            ELSE [ok |-> FALSE, names |-> {}]
    IN At(Resolve(f, p))

\* fs::create_dir_all: creates every missing directory on the way
RECURSIVE MkdirWalk(_, _, _)
MkdirWalk(f, at, cs) ==
    IF IsFileNode(f, at) THEN [ok |-> FALSE, fs |-> f]
    ELSE IF at \notin DOMAIN f THEN MkdirWalk((at :> DirNode) @@ f, at, cs)
    ELSE IF cs = <<>> THEN [ok |-> TRUE, fs |-> f]
    ELSE MkdirWalk(f, IF cs[1] = Dot THEN at
                      ELSE IF cs[1] = DotDot THEN pop(at)
                      ELSE Append(at, cs[1]), Tail(cs))

create_dir_all(f, p) ==
    IF ~p.abs /\ p.comps = <<>> THEN [ok |-> TRUE, fs |-> f]
    ELSE IF ~p.abs /\ ~IsDirNode(f, Cwd) THEN [ok |-> FALSE, fs |-> f]
    ELSE MkdirWalk(f, IF p.abs THEN <<>> ELSE Cwd, p.comps)

\* fs::write: creates or truncates a regular file and stores the content
write(f, p, c) ==
    LET At(r) ==
            IF r.ok /\ PlainLast(p) /\ ~p.slash /\ ~IsDirNode(f, r.at)
            THEN [ok |-> TRUE, fs |-> (r.at :> FileNode(c)) @@ f]
            ELSE [ok |-> FALSE, fs |-> f]
    IN At(Resolve(f, p))

\* fs::File::create: creates or truncates a regular file
File_create(f, p) == write(f, p, <<>>)

\* fs::read_to_string(..).unwrap_or_else(|_| "Cannot read file")
CannotRead == <<"Cannot read file">>
read_to_string(f, p) ==
    LET At(r) == IF ~p.slash /\ ResolvedFile(f, r) THEN f[r.at].content
                 ELSE CannotRead
    IN At(Resolve(f, p))

\* fs::copy: the source must be a regular file; the destination is opened
\* for writing with truncation before the source is read, so copying a file
\* onto itself empties it
copy(f, from, to) ==
    LET At(s, d) ==
            IF /\ ~from.slash /\ ResolvedFile(f, s)
               /\ PlainLast(to) /\ ~to.slash /\ d.ok /\ ~IsDirNode(f, d.at)
            THEN [ok |-> TRUE,
                  fs |-> (d.at :> FileNode(IF d.at = s.at THEN <<>>
                                           ELSE f[s.at].content)) @@ f]
            ELSE [ok |-> FALSE, fs |-> f]
    IN At(Resolve(f, from), Resolve(f, to))

\* fs::remove_file
remove_file(f, p) ==
    LET At(r) ==
            IF ~p.slash /\ ResolvedFile(f, r)
            THEN [ok |-> TRUE, fs |-> Without(f, {r.at})]
            ELSE [ok |-> FALSE, fs |-> f]
    IN At(Resolve(f, p))

\* fs::remove_dir_all: removes the directory and all below it
remove_dir_all(f, p) ==
    LET At(r) ==
            IF PlainLast(p) /\ ResolvedDir(f, r)
            THEN [ok |-> TRUE, fs |-> Without(f, Under(f, r.at))]
            ELSE [ok |-> FALSE, fs |-> f]
    IN At(Resolve(f, p))

\* fs::rename (rename(2)): moves a file or a whole directory; an existing
\* destination is replaced when it is a file (for a file) or an empty
\* directory (for a directory)
rename(f, old, new) ==
    LET Fits(n, oDir) ==
            \/ n \notin DOMAIN f
            \/ (~oDir /\ IsFileNode(f, n))
            \/ (oDir /\ IsDirNode(f, n) /\ Children(f, n) = {})
        Moved(o, n) ==
            [m \in {n \o SubSeq(q, Len(o) + 1, Len(q)) : q \in Under(f, o)}
                |-> f[o \o SubSeq(m, Len(n) + 1, Len(m))]]
        At(o, n) ==
            IF \/ ~(PlainLast(old) /\ PlainLast(new) /\ o \in DOMAIN f)
               \/ ((old.slash \/ new.slash) /\ ~IsDirNode(f, o))
            THEN [ok |-> FALSE, fs |-> f]
            ELSE IF n = o THEN [ok |-> TRUE, fs |-> f]
            ELSE IF IsPrefix(o, n) \/ ~Fits(n, IsDirNode(f, o))
            THEN [ok |-> FALSE, fs |-> f]
            ELSE [ok |-> TRUE,
                  fs |-> Moved(o, n) @@ Without(f, Under(f, o) \cup {n})]
        Resolved(o, n) ==
            IF o.ok /\ n.ok THEN At(o.at, n.at) ELSE [ok |-> FALSE, fs |-> f]
    IN Resolved(Resolve(f, old), Resolve(f, new))

\* trash::delete (the trash crate): the target is the canonical parent joined
\* with the file name, and the canonical parent itself when the path ends in
\* ".."; the target and all below it leave the file system
trash_target(f, p) ==
    IF PlainLast(p) THEN Resolve(f, p)
    ELSE IF p.comps # <<>> THEN Resolve(f, parent(p).path)
    ELSE [ok |-> FALSE, at |-> <<>>]

trash_delete(f, p) ==
    LET At(t) ==
            IF t.ok /\ t.at \in DOMAIN f /\ t.at # <<>>
            THEN [ok |-> TRUE, fs |-> Without(f, Under(f, t.at))]
            ELSE [ok |-> FALSE, fs |-> f]
    IN At(trash_target(f, p))

----------------------------------------------------------------------------
(* struct App and its methods.  A method takes and returns the world        *)
(*   w = [app, fs, trashed, status];                                        *)
(* a failed unwrap() sets status to "panicked" and what the method had      *)
(* already done stays done.  Indices are 0-based as in the source.          *)

Panic(w) == [w EXCEPT !.status = "panicked"]

\* the value of $HOME
Home == [abs |-> TRUE, comps |-> << <<"h">> >>, slash |-> FALSE]

\* App::normalize_path: a leading "~" component becomes $HOME
normalize_path(p) ==
    IF ~p.abs /\ p.comps # <<>> /\ p.comps[1] = <<"~">>
    THEN [abs |-> TRUE, comps |-> Home.comps \o Tail(p.comps), slash |-> p.slash]
    ELSE p

\* the comparator of all_entries.sort_by: names with a non-ASCII character
\* first, then names that do not start with '.', then by lower-cased name
has_non_ascii(s) == \E i \in 1..Len(s) : ~is_ascii(s[i])

\* the comparator as it would be if it compared the names as they are, without
\* to_lowercase
EntryCmp_as_spelled(x, y) ==
    IF has_non_ascii(x) /\ ~has_non_ascii(y) THEN -1
    ELSE IF ~has_non_ascii(x) /\ has_non_ascii(y) THEN 1
    ELSE IF starts_with(x, ".") /\ ~starts_with(y, ".") THEN 1
    ELSE IF ~starts_with(x, ".") /\ starts_with(y, ".") THEN -1
    ELSE StrCmp(x, y)

EntryCmp(x, y) ==
    IF has_non_ascii(x) /\ ~has_non_ascii(y) THEN -1
    ELSE IF ~has_non_ascii(x) /\ has_non_ascii(y) THEN 1
    ELSE IF starts_with(x, ".") /\ ~starts_with(y, ".") THEN 1
    ELSE IF ~starts_with(x, ".") /\ starts_with(y, ".") THEN -1
    ELSE StrCmp(to_lowercase(x), to_lowercase(y))

\* sort_by is stable: entries the comparator calls equal keep the order
\* read_dir gave them, taken here to be the order of their raw names
Before(x, y) == EntryCmp(x, y) < 0 \/ (EntryCmp(x, y) = 0 /\ StrCmp(x, y) < 0)

RECURSIVE SortNames(_)
SortNames(S) ==
    IF S = {} THEN <<>>
    ELSE LET Rest(m) == <<m>> \o SortNames(S \ {m})
         IN Rest(CHOOSE x \in S : \A y \in S \ {x} : Before(x, y))

\* App::get_files: "..", hidden directories, directories, hidden files, files
get_files(f, p, show_hidden) ==
    LET Shown(x) == x \notin {Dot, DotDot} /\ (show_hidden \/ ~starts_with(x, "."))
        EntryIsDir(x) == is_dir(f, join(p, x))
        HiddenDir(x) == Shown(x) /\ EntryIsDir(x) /\ starts_with(x, ".")
        NormalDir(x) == Shown(x) /\ EntryIsDir(x) /\ ~starts_with(x, ".")
        HiddenFile(x) == Shown(x) /\ ~EntryIsDir(x) /\ starts_with(x, ".")
        NormalFile(x) == Shown(x) /\ ~EntryIsDir(x) /\ ~starts_with(x, ".")
        Groups(all_entries) ==
            <<DotDot>> \o SelectSeq(all_entries, HiddenDir)
                \o SelectSeq(all_entries, NormalDir)
                \o SelectSeq(all_entries, HiddenFile)
                \o SelectSeq(all_entries, NormalFile)
        Listing(rd) == [ok |-> rd.ok, files |-> Groups(SortNames(rd.names))]
    IN Listing(read_dir(f, p))

\* self.files = Self::get_files(&self.path, self.show_hidden), whose
\* read_dir(..).unwrap() panics when the path is no readable directory
Relist(w) ==
    LET Set(r) == IF r.ok THEN [w EXCEPT !.app.files = r.files] ELSE Panic(w)
    IN Set(get_files(w.fs, w.app.path, w.app.show_hidden))

\* self.selected = 0, reached unless the listing before it panicked
SelectFirst(w) ==
    IF w.status = "panicked" THEN w ELSE [w EXCEPT !.app.selected = 0]

\* self.mode = AppMode::Normal, reached unless a call before it panicked
ToNormal(w) ==
    IF w.status = "panicked" THEN w ELSE [w EXCEPT !.app.mode = "Normal"]

\* the entry under the selection, and its path
selected_file(a) == a.files[a.selected + 1]
selected_path(a) == join(a.path, selected_file(a))

\* App::new
New(f, p) ==
    LET Make(normalized_path, address_input) ==
       [path |-> normalized_path,
        files |-> get_files(f, normalized_path, TRUE).files,
        selected |-> 0,
        mode |-> "Normal",
        address_input |-> address_input,
        cursor_position |-> Len(address_input),
        create_input |-> <<>>,
        rename_input |-> <<>>,
        clipboard |-> <<>>,
        is_cut |-> FALSE,
        show_hidden |-> TRUE,
        filter_input |-> <<>>,
        file_content |-> <<>>,
        edit_content |-> <<>>,
        create_directory_input |-> <<>>,
        move_input |-> <<>>,
        find_input |-> <<>>,
        replace_input |-> <<>>,
        selected_action |-> 0,
        panel_focus |-> "Files",
        history |-> <<normalized_path>>,
        history_index |-> 0,
        top_bar_focus |-> "AddressBar"]
    IN Make(normalize_path(p), to_str(normalize_path(p)))

\* App::select_next
select_next(w) ==
    IF w.app.selected < Len(w.app.files) - 1
    THEN [w EXCEPT !.app.selected = @ + 1] ELSE w

\* App::select_previous
select_previous(w) ==
    IF w.app.selected > 0 THEN [w EXCEPT !.app.selected = @ - 1] ELSE w

\* update_path as it would be without the truncate: the new path is appended
\* behind whatever forward history there is
update_path_keeping_forward(w, new_path) ==
    LET Push(w1) ==
            IF w1.status = "panicked" THEN w1
            ELSE [w1 EXCEPT !.app.selected = 0,
                            !.app.history = Append(@, w1.app.path),
                            !.app.history_index = Len(w1.app.history)]
    IN Push(Relist([w EXCEPT !.app.path = new_path]))

\* update_path as it would be with history_index = self.history.len()
update_path_index_past_end(w, new_path) ==
    LET Truncated(h, i) == IF i < Len(h) - 1 THEN SubSeq(h, 1, i + 1) ELSE h
        Push(w1) ==
            IF w1.status = "panicked" THEN w1
            ELSE [w1 EXCEPT !.app.selected = 0,
                            !.app.history = Append(@, w1.app.path),
                            !.app.history_index = Len(w1.app.history) + 1]
    IN Push(Relist([w EXCEPT
                      !.app.history = Truncated(@, w.app.history_index),
                      !.app.path = new_path]))

\* App::update_path
update_path(w, new_path) ==
    LET Truncated(h, i) == IF i < Len(h) - 1 THEN SubSeq(h, 1, i + 1) ELSE h
        Push(w1) ==
            IF w1.status = "panicked" THEN w1
            ELSE [w1 EXCEPT !.app.selected = 0,
                            !.app.history = Append(@, w1.app.path),
                            !.app.history_index = Len(w1.app.history)]
    IN Push(Relist([w EXCEPT
                      !.app.history = Truncated(@, w.app.history_index),
                      !.app.path = new_path]))

\* App::open_selected (spawning xdg-open changes nothing the model holds)
open_selected(w) ==
    LET Up(pp) == IF pp.has THEN pp.path ELSE w.app.path
        Into(p) == IF is_dir(w.fs, p) THEN update_path(w, p) ELSE w
    IN IF selected_file(w.app) = DotDot
       THEN SelectFirst(Relist([w EXCEPT !.app.path = Up(parent(w.app.path))]))
       ELSE Into(normalize_path(selected_path(w.app)))

\* App::go_to_parent_directory
go_to_parent_directory(w) ==
    LET Go(pp) == IF pp.has THEN update_path(w, pp.path) ELSE w
    IN Go(parent(w.app.path))

\* the common tail of go_back and go_forward
GoToIndex(w, i) ==
    SelectFirst(Relist([w EXCEPT !.app.history_index = i,
                                 !.app.path = w.app.history[i + 1]]))

\* go_back as it would be if it went to the first element of the history
go_back_to_first(w) ==
    IF w.app.history_index > 0 THEN GoToIndex(w, 0) ELSE w

\* App::go_back
go_back(w) ==
    IF w.app.history_index > 0 THEN GoToIndex(w, w.app.history_index - 1) ELSE w

\* App::go_forward
go_forward(w) ==
    IF w.app.history_index < Len(w.app.history) - 1
    THEN GoToIndex(w, w.app.history_index + 1) ELSE w

\* delete_selected as it would be if it deleted at once, without the dialog
delete_selected_at_once(w) ==
    SelectFirst(Relist([w EXCEPT
        !.trashed = Append(@, selected_path(w.app)),
        !.fs = trash_delete(w.fs, selected_path(w.app)).fs]))

\* App::delete_selected
delete_selected(w) == [w EXCEPT !.app.mode = "ConfirmDelete"]

\* App::confirm_delete
confirm_delete(w) ==
    LET Sent(p) == [w EXCEPT !.trashed = Append(@, p)]
        After(w1, t) ==
            IF ~t.ok THEN Panic(w1)
            ELSE ToNormal(SelectFirst(Relist([w1 EXCEPT !.fs = t.fs])))
        Delete(p) == After(Sent(p), trash_delete(w.fs, p))
    IN Delete(selected_path(w.app))

\* App::cancel_delete
cancel_delete(w) == [w EXCEPT !.app.mode = "Normal"]

\* App::copy_selected; the clipboard is <<>> (None) or <<path>> (Some)
copy_selected(w) == [w EXCEPT !.app.clipboard = <<selected_path(w.app)>>]

\* App::cut_selected
cut_selected(w) ==
    [w EXCEPT !.app.clipboard = <<selected_path(w.app)>>,
              !.app.is_cut = TRUE,
              !.app.mode = "Normal"]

\* the loop of App::paste over read_dir(from), in the file system g that
\* create_dir_all left.  read_dir yields the entries in no promised order:
\* "before" is the set of entries it yields ahead of the first one whose
\* copy fails (fs::copy fails on a directory).
CopyChildren(g, from, to, before) ==
    LET src(x) == Resolve(g, join(from, x)).at
        dst(x) == Resolve(g, join(to, x)).at
        Copied(done) ==
            [n \in {dst(x) : x \in done} |->
                FileNode(IF \E y \in done : dst(y) = n /\ src(y) = n THEN <<>>
                         ELSE g[src(CHOOSE y \in done : dst(y) = n)].content)] @@ g
        Result(names, good) ==
            [ok |-> good = names,
             fs |-> Copied(IF good = names THEN names ELSE before \cap good)]
        Try(names) ==
            Result(names, {x \in names : copy(g, join(from, x), join(to, x)).ok})
    IN Try(read_dir(g, from).names)

\* App::paste, the copy: a directory is created and its entries are copied
\* one by one, a file is copied
CopyAny(f, from, to, before) ==
    LET Fill(made) == IF ~made.ok THEN [ok |-> FALSE, fs |-> f]
                      ELSE CopyChildren(made.fs, from, to, before)
    IN IF is_dir(f, from) THEN Fill(create_dir_all(f, to)) ELSE copy(f, from, to)

\* the removal of a cut source as it would be if paste left the source alone
RemoveNothing(f, from) == [ok |-> TRUE, fs |-> f]

\* App::paste, the removal of a cut source
RemoveSource(f, from) ==
    IF is_dir(f, from) THEN remove_dir_all(f, from) ELSE remove_file(f, from)

\* App::paste
paste(w, before) ==
    LET Cleared(w1, gone) ==
            IF ~gone.ok THEN Panic(w1)
            ELSE Relist([w1 EXCEPT !.fs = gone.fs,
                                   !.app.is_cut = FALSE,
                                   !.app.clipboard = <<>>])
        AfterCopy(w1, ok, from) ==
            IF ~ok THEN Panic(w1)
            ELSE IF w.app.is_cut THEN Cleared(w1, RemoveSource(w1.fs, from))
            ELSE Relist(w1)
        Copy(c, from) == AfterCopy([w EXCEPT !.fs = c.fs], c.ok, from)
        From(from) ==
            IF ~file_name(from).has THEN Panic(w)
            ELSE Copy(CopyAny(w.fs, from, join(w.app.path, file_name(from).name), before),
                      from)
    IN IF w.app.clipboard = <<>> THEN w ELSE From(w.app.clipboard[1])

\* the sets of entries read_dir may yield first when paste copies a directory
Befores(w) ==
    IF w.app.clipboard = <<>> THEN {{}}
    ELSE SUBSET read_dir(w.fs, w.app.clipboard[1]).names

\* the file App::save_file writes, relative to the working directory
SavedFile ==
    PathFrom(<<"s", "a", "v", "e", "d", "_", "f", "i", "l", "e", ".", "t", "x", "t">>)

\* App::save_file
save_file(w) ==
    LET Saved(wr) == IF wr.ok THEN [w EXCEPT !.fs = wr.fs] ELSE Panic(w)
        Save(p) == IF is_dir(w.fs, p) THEN w
                   ELSE Saved(write(w.fs, SavedFile, read_to_string(w.fs, p)))
    IN Save(selected_path(w.app))

\* App::open_file: spawns xdg-open, which changes nothing the model holds
open_file(w) == w

\* toggle_hidden_files as it would be if it flipped the flag and left the
\* listing as it was
toggle_hidden_files_stale(w) == [w EXCEPT !.app.show_hidden = ~@]

\* App::toggle_hidden_files
toggle_hidden_files(w) == SelectFirst(Relist([w EXCEPT !.app.show_hidden = ~@]))

\* App::view_file
view_file(w) ==
    LET View(p) == IF is_dir(w.fs, p) THEN w
                   ELSE [w EXCEPT !.app.file_content = read_to_string(w.fs, p),
                                  !.app.mode = "View"]
    IN View(selected_path(w.app))

\* App::edit_file
edit_file(w) ==
    LET Edit(p) == IF is_dir(w.fs, p) THEN w
                   ELSE [w EXCEPT !.app.edit_content = read_to_string(w.fs, p),
                                  !.app.mode = "Edit"]
    IN Edit(selected_path(w.app))

----------------------------------------------------------------------------
(* run_app: what the match arms share *)

\* number of entries of the Actions panel (ACTIONS in render_context_menu)
ActionCount == 14

\* return Ok(()) from run_app
Quit(w) == [w EXCEPT !.status = "exited"]

SetMode(w, m) == [w EXCEPT !.app.mode = m]

SetFocus(w, pf) == [w EXCEPT !.app.panel_focus = pf]

\* app.mode = AppMode::Normal; app.panel_focus = PanelFocus::Files, reached
\* unless the call before them panicked or returned from run_app
BackToFiles(w) ==
    IF w.status # "running" THEN w
    ELSE [w EXCEPT !.app.mode = "Normal", !.app.panel_focus = "Files"]

\* app.panel_focus = PanelFocus::Files, reached unless the call before it
\* panicked
FocusFiles(w) ==
    IF w.status # "running" THEN w ELSE [w EXCEPT !.app.panel_focus = "Files"]

\* Normal, Actions: Enter.  The selected action runs, then mode and focus
\* are reset, whatever the action set them to.
ActionEnter(w, before) ==
    LET Run(n) ==
            CASE n = 0 -> cut_selected(w)
              [] n = 1 -> copy_selected(w)
              [] n = 2 -> paste(w, before)
              [] n = 3 -> delete_selected(w)
              [] n = 4 -> SetMode(w, "Rename")
              [] n = 5 -> SetMode(w, "Create")
              [] n = 6 -> SetMode(w, "CreateDirectory")
              [] n = 7 -> SetMode(w, "Move")
              [] n = 8 -> view_file(w)
              [] n = 9 -> edit_file(w)
              [] n = 10 -> SetMode(w, "Find")
              [] n = 11 -> SetMode(w, "Replace")
              [] n = 12 -> toggle_hidden_files(w)
              [] n = 13 -> Quit(w)
              [] OTHER -> w
    IN BackToFiles(Run(w.app.selected_action))

\* Committed as it would be if the listing were not refreshed
Committed_stale(w, r, buffer) ==
    IF ~r.ok THEN Panic(w)
    ELSE [w EXCEPT !.fs = r.fs, !.app[buffer] = <<>>, !.app.mode = "Normal"]

\* the tail of the Enter arm of Create, Rename, CreateDirectory and Move:
\* the result r of the file operation is unwrapped, the listing is
\* refreshed, the buffer is cleared and the mode set to Normal
Committed(w, r, buffer) ==
    LET Finish(w1) ==
            IF w1.status = "panicked" THEN w1
            ELSE [w1 EXCEPT !.app[buffer] = <<>>, !.app.mode = "Normal"]
    IN IF ~r.ok THEN Panic(w) ELSE Finish(Relist([w EXCEPT !.fs = r.fs]))

----------------------------------------------------------------------------
(* The event loop.  Each action is one iteration of the loop of run_app:   *)
(* terminal.draw(ui), then the match arm of the event read.                *)

\* the file system at start-up:  /d/  /d/s/  /d/s/g  /f
InitFs ==
    (<<>> :> DirNode)
    @@ (<< <<"d">> >> :> DirNode)
    @@ (<< <<"d">>, <<"s">> >> :> DirNode)
    @@ (<< <<"d">>, <<"s">>, <<"g">> >> :> FileNode(<<"y">>))
    @@ (<< <<"f">> >> :> FileNode(<<"x">>))

CwdPath == [abs |-> TRUE, comps |-> Cwd, slash |-> FALSE]

Start ==
    /\ fs = InitFs
    /\ app = New(InitFs, CwdPath)
    /\ trashed = <<>>
    /\ status = "running"

\* a run of any length
Init == Start /\ budget = -1

\* a run of at most MaxEvents events
InitShort == Start /\ budget = MaxEvents

\* a run of at most MaxOps events
InitOps == Start /\ budget = MaxOps

W == [app |-> app, fs |-> fs, trashed |-> trashed, status |-> status]

\* ui indexes app.files[app.selected] (render_preview): the draw panics
\* when the selection is outside the listing
DrawOk == app.selected < Len(app.files)

Ready(m) == status = "running" /\ DrawOk /\ app.mode = m

Focus(pf) == Ready("Normal") /\ app.panel_focus = pf

\* the world after the match arm; the guards keep the run inside the bounds
Do(w) ==
    /\ Cardinality(DOMAIN w.fs) <= MaxNodes
    /\ Len(w.app.history) <= MaxHist
    /\ Len(w.trashed) <= MaxTrash
    /\ budget # 0
    /\ budget' = IF budget < 0 THEN budget ELSE budget - 1
    /\ app' = w.app
    /\ fs' = w.fs
    /\ trashed' = w.trashed
    /\ status' = w.status

\* typing is cut off at MaxLen characters
Room(buf) == Len(buf) < MaxLen

DrawPanic ==
    /\ status = "running" /\ ~DrawOk
    /\ status' = "panicked"
    /\ UNCHANGED <<app, fs, trashed, budget>>

(* AppMode::Normal, PanelFocus::Files *)
KeyAltLeft == Focus("Files") /\ Do(go_back(W))
KeyAltRight == Focus("Files") /\ Do(go_forward(W))
KeyAltUp == Focus("Files") /\ Do(go_to_parent_directory(W))
KeyQuit == Focus("Files") /\ Do(Quit(W))
KeyDown == Focus("Files") /\ Do(select_next(W))
KeyUp == Focus("Files") /\ Do(select_previous(W))
KeyEnter == Focus("Files") /\ Do(open_selected(W))
KeyDelete == Focus("Files") /\ Do(delete_selected(W))
KeySlash ==
    Focus("Files")
      /\ Do([W EXCEPT !.app.mode = "Editing",
                      !.app.panel_focus = "TopBarButtons",
                      !.app.top_bar_focus = "AddressBar"])
KeyCopy == Focus("Files") /\ Do(copy_selected(W))
KeyCut == Focus("Files") /\ Do(cut_selected(W))
KeyPaste == Focus("Files") /\ \E before \in Befores(W) : Do(paste(W, before))
KeySave == Focus("Files") /\ Do(save_file(W))
KeyOpen == Focus("Files") /\ Do(open_file(W))
KeyHidden == Focus("Files") /\ Do(toggle_hidden_files(W))
KeyView == Focus("Files") /\ Do(view_file(W))
KeyEdit == Focus("Files") /\ Do(edit_file(W))
\* 'n', Ctrl+f, 'f', Ctrl+r, 'r', '+' and 'm': app.mode = ...
KeyMode ==
    Focus("Files")
      /\ \E m \in {"Create", "Find", "Filter", "Replace", "Rename",
                   "CreateDirectory", "Move"} : Do(SetMode(W, m))
KeyRight == Focus("Files") /\ Do(SetFocus(W, "Actions"))
KeyTab == Focus("Files") /\ Do(SetFocus(W, "TopBarButtons"))
KeyBackspace == Focus("Files") /\ Do(go_to_parent_directory(W))

(* AppMode::Normal, PanelFocus::Actions *)
ActionsUp ==
    Focus("Actions")
      /\ Do(IF app.selected_action > 0
            THEN [W EXCEPT !.app.selected_action = @ - 1] ELSE W)
ActionsDown ==
    Focus("Actions")
      /\ Do(IF app.selected_action < ActionCount - 1
            THEN [W EXCEPT !.app.selected_action = @ + 1] ELSE W)
ActionsLeft == Focus("Actions") /\ Do(SetFocus(W, "Files"))
ActionsEnter ==
    Focus("Actions")
      /\ \E before \in (IF app.selected_action = 2 THEN Befores(W) ELSE {{}}) :
            Do(ActionEnter(W, before))
ActionsEsc == Focus("Actions") /\ Do(BackToFiles(W))

(* AppMode::Normal, PanelFocus::TopBarButtons *)
TopLeft ==
    Focus("TopBarButtons")
      /\ Do([W EXCEPT !.app.top_bar_focus =
               CASE @ = "AddressBar" -> "UpButton"
                 [] @ = "PrevButton" -> "AddressBar"
                 [] @ = "NextButton" -> "PrevButton"
                 [] @ = "UpButton" -> "NextButton"])
TopRight ==
    Focus("TopBarButtons")
      /\ Do([W EXCEPT !.app.top_bar_focus =
               CASE @ = "AddressBar" -> "PrevButton"
                 [] @ = "PrevButton" -> "NextButton"
                 [] @ = "NextButton" -> "UpButton"
                 [] @ = "UpButton" -> "AddressBar"])
TopEnter ==
    Focus("TopBarButtons")
      /\ Do(CASE app.top_bar_focus = "AddressBar" -> SetMode(W, "Editing")
              [] app.top_bar_focus = "PrevButton" -> FocusFiles(go_back(W))
              [] app.top_bar_focus = "NextButton" -> FocusFiles(go_forward(W))
              [] app.top_bar_focus = "UpButton" ->
                    FocusFiles(go_to_parent_directory(W)))
TopEsc == Focus("TopBarButtons") /\ Do(BackToFiles(W))

(* AppMode::ConfirmDelete *)
ConfirmYes == Ready("ConfirmDelete") /\ Do(confirm_delete(W))
ConfirmNo == Ready("ConfirmDelete") /\ Do(cancel_delete(W))
\* any other key: the arm _ => {}
ConfirmOther == Ready("ConfirmDelete") /\ Do(W)

(* AppMode::Editing *)
\* String::insert panics past the end of the text
EditingChar ==
    Ready("Editing") /\ Room(app.address_input)
      /\ \E c \in KeyChars :
            Do(IF app.cursor_position > Len(app.address_input) THEN Panic(W)
               ELSE [W EXCEPT
                       !.app.address_input = insert(@, app.cursor_position, c),
                       !.app.cursor_position = @ + 1])
\* String::remove panics at or past the end of the text
EditingBackspace ==
    Ready("Editing")
      /\ Do(IF app.cursor_position = 0 THEN W
            ELSE IF app.cursor_position - 1 >= Len(app.address_input)
            THEN Panic([W EXCEPT !.app.cursor_position = @ - 1])
            ELSE [W EXCEPT
                    !.app.address_input = remove(@, app.cursor_position - 1),
                    !.app.cursor_position = @ - 1])
\* the Enter arm of Editing as it would be without the is_dir test
EditingEnter_unchecked ==
    Ready("Editing")
      /\ Do(BackToFiles(update_path(W, PathFrom(app.address_input))))

EditingEnter ==
    Ready("Editing")
      /\ Do(BackToFiles(IF is_dir(fs, PathFrom(app.address_input))
                        THEN update_path(W, PathFrom(app.address_input))
                        ELSE W))
EditingEsc == Ready("Editing") /\ Do(BackToFiles(W))

(* The modes with a text buffer that Char(c) pushes to and Backspace pops  *)
(* from, each with the field that holds its buffer                         *)
Buffer ==
    [Create |-> "create_input", Rename |-> "rename_input",
     Filter |-> "filter_input", Edit |-> "edit_content",
     CreateDirectory |-> "create_directory_input", Move |-> "move_input",
     Find |-> "find_input", Replace |-> "replace_input"]

BufferChar ==
    \E m \in DOMAIN Buffer :
        /\ Ready(m) /\ Room(app[Buffer[m]])
        /\ \E c \in KeyChars : Do([W EXCEPT !.app[Buffer[m]] = Append(@, c)])
BufferBackspace ==
    \E m \in DOMAIN Buffer : Ready(m) /\ Do([W EXCEPT !.app[Buffer[m]] = pop(@)])
\* Esc in every such mode but Filter
BufferEsc ==
    \E m \in DOMAIN Buffer \ {"Filter"} :
        Ready(m) /\ Do([W EXCEPT !.app[Buffer[m]] = <<>>, !.app.mode = "Normal"])

(* Enter in AppMode::Create, Rename, CreateDirectory and Move *)
CreateCommit ==
    Ready("Create")
      /\ Do(Committed(W, IF ends_with_sep(join(app.path, app.create_input))
                         THEN create_dir_all(fs, join(app.path, app.create_input))
                         ELSE File_create(fs, join(app.path, app.create_input)),
                      "create_input"))
RenameCommit ==
    Ready("Rename")
      /\ Do(Committed(W, rename(fs, selected_path(app),
                                join(app.path, app.rename_input)),
                      "rename_input"))
CreateDirectoryCommit ==
    Ready("CreateDirectory")
      /\ Do(Committed(W, create_dir_all(fs, join(app.path,
                                                 app.create_directory_input)),
                      "create_directory_input"))
MoveCommit ==
    Ready("Move")
      /\ Do(Committed(W, rename(fs, selected_path(app), PathFrom(app.move_input)),
                      "move_input"))

(* AppMode::Filter: Enter and Esc *)
FilterCommit ==
    Ready("Filter")
      /\ Do(LET Keep(x) == contains(x, app.filter_input)
                Retain(w1) ==
                    IF w1.status = "panicked" THEN w1
                    ELSE [w1 EXCEPT !.app.files = SelectSeq(@, Keep),
                                    !.app.selected = 0,
                                    !.app.mode = "Normal"]
            IN Retain(Relist(W)))
FilterCancel ==
    Ready("Filter") /\ Do(ToNormal(Relist([W EXCEPT !.app.filter_input = <<>>])))

(* AppMode::View *)
ViewEsc == Ready("View") /\ Do(SetMode(W, "Normal"))

(* AppMode::Edit: Ctrl+s, and Enter *)
EditCommit ==
    Ready("Edit")
      /\ Do(LET Saved(r) ==
                    IF ~r.ok THEN Panic(W)
                    ELSE [W EXCEPT !.fs = r.fs,
                                   !.app.edit_content = <<>>,
                                   !.app.mode = "Normal"]
            IN Saved(write(fs, selected_path(app), app.edit_content)))

(* AppMode::Find and Replace: Enter *)
SearchCommit ==
    \E m \in {"Find", "Replace"} : Ready(m) /\ Do(SetMode(W, "Normal"))

(* KeyCode::Up and KeyCode::Down outside the file list and the action    *)
(* list: with the top bar focused Down is the Esc | Down arm and Up falls  *)
(* to _ => {}; in every mode but Normal both fall to _ => {}               *)
KeyUpDownElsewhere ==
    \/ Focus("TopBarButtons") /\ (Do(W) \/ Do(BackToFiles(W)))
    \/ status = "running" /\ DrawOk /\ app.mode # "Normal" /\ Do(W)

(* KeyCode::Char('q') where no arm returns from run_app: the arms _ => {}  *)
(* ignore it, the arms Char(c) take it as text                             *)
KeyQElsewhere ==
    \/ /\ \/ Focus("Actions") \/ Focus("TopBarButtons")
          \/ Ready("ConfirmDelete") \/ Ready("View")
       /\ Do(W)
    \/ Ready("Editing") /\ Room(app.address_input)
         /\ Do(IF app.cursor_position > Len(app.address_input) THEN Panic(W)
               ELSE [W EXCEPT
                       !.app.address_input = insert(@, app.cursor_position, "q"),
                       !.app.cursor_position = @ + 1])
    \/ \E m \in DOMAIN Buffer :
          Ready(m) /\ Room(app[Buffer[m]])
            /\ Do([W EXCEPT !.app[Buffer[m]] = Append(@, "q")])

(* Event::Mouse, left button down, by the area hit; handled in every mode *)
Mouse == status = "running" /\ DrawOk

\* the address bar; col is (x - address_bar_rect.x).saturating_sub(1)
MouseAddressBar ==
    Mouse /\ \E col \in 0..MaxCol :
                Do([W EXCEPT !.app.panel_focus = "TopBarButtons",
                             !.app.top_bar_focus = "AddressBar",
                             !.app.mode = "Editing",
                             !.app.cursor_position = col])
\* the Prev, Next and Up buttons
MouseButton ==
    Mouse /\ \/ Do(BackToFiles(go_back(W)))
             \/ Do(BackToFiles(go_forward(W)))
             \/ Do(BackToFiles(go_to_parent_directory(W)))
\* the file list; row is y - file_list_rect.y
MouseFileList ==
    Mouse /\ \E row \in 0..MaxRow :
                Do(IF row < Len(app.files)
                   THEN [W EXCEPT !.app.panel_focus = "Files", !.app.selected = row]
                   ELSE SetFocus(W, "Files"))
\* the click on the action list as it would be without the test of
\* clicked_index
MouseActionList_unguarded ==
    Mouse /\ \E row \in 0..ActionCount :
                Do([W EXCEPT !.app.panel_focus = "Actions",
                             !.app.selected_action = row])

\* the action list; row is y - action_list_rect.y
MouseActionList ==
    Mouse /\ \E row \in 0..ActionCount :
                Do(IF row < ActionCount
                   THEN [W EXCEPT !.app.panel_focus = "Actions",
                                  !.app.selected_action = row]
                   ELSE SetFocus(W, "Actions"))

----------------------------------------------------------------------------
(* Specifications *)

\* navigation: everything that reads or writes path, history and
\* history_index, on a file system that stays as it is
NextNav ==
    \/ KeyAltLeft \/ KeyAltRight \/ KeyAltUp \/ KeyBackspace
    \/ KeyDown \/ KeyUp \/ KeyEnter \/ KeyQuit
    \/ KeySlash \/ KeyTab
    \/ TopLeft \/ TopRight \/ TopEnter \/ TopEsc
    \/ EditingEnter \/ EditingEsc
    \/ MouseButton \/ MouseFileList

SpecNav == Init /\ [][NextNav]_vars

\* the file operations: copy, cut, paste and delete, with the moves of the
\* selection and between directories that set them up
NextOps ==
    \/ DrawPanic
    \/ KeyDown \/ KeyUp \/ KeyEnter \/ KeyQuit
    \/ KeyCopy \/ KeyCut \/ KeyPaste \/ KeyDelete
    \/ ConfirmYes \/ ConfirmNo \/ ConfirmOther

SpecOps == InitOps /\ [][NextOps]_vars

\* every match arm of run_app
Next ==
    \/ DrawPanic
    \/ KeyAltLeft \/ KeyAltRight \/ KeyAltUp \/ KeyBackspace
    \/ KeyDown \/ KeyUp \/ KeyEnter \/ KeyQuit
    \/ KeySlash \/ KeyTab \/ KeyRight
    \/ KeyDelete \/ KeyCopy \/ KeyCut \/ KeyPaste \/ KeySave \/ KeyOpen
    \/ KeyHidden \/ KeyView \/ KeyEdit \/ KeyMode
    \/ ActionsUp \/ ActionsDown \/ ActionsLeft \/ ActionsEnter \/ ActionsEsc
    \/ TopLeft \/ TopRight \/ TopEnter \/ TopEsc
    \/ ConfirmYes \/ ConfirmNo \/ ConfirmOther
    \/ EditingChar \/ EditingBackspace \/ EditingEnter \/ EditingEsc
    \/ BufferChar \/ BufferBackspace \/ BufferEsc
    \/ CreateCommit \/ RenameCommit \/ CreateDirectoryCommit \/ MoveCommit
    \/ FilterCommit \/ FilterCancel
    \/ ViewEsc \/ EditCommit \/ SearchCommit
    \/ KeyQElsewhere \/ KeyUpDownElsewhere
    \/ MouseAddressBar \/ MouseButton \/ MouseFileList \/ MouseActionList

\* every match arm, in runs of at most MaxEvents events
Spec == InitShort /\ [][Next]_vars

\* the listing over directories of every make-up: the browser is started in
\* a directory that holds any of these names, each as a directory or as a
\* file; the names differ in case, in a leading '.' and in a non-ASCII
\* character
ListNames == {<<"a">>, <<"A", "b">>, <<"e'">>, <<".", "a">>}

InitList ==
    /\ \E kinds \in [ListNames -> {"none", "dir", "file"}] :
          /\ fs = (<<>> :> DirNode)
                    @@ [n \in {<<x>> : x \in {y \in ListNames : kinds[y] # "none"}} |->
                          IF kinds[n[1]] = "dir" THEN DirNode ELSE FileNode(<<"x">>)]
          /\ app = New(fs, CwdPath)
    /\ trashed = <<>>
    /\ status = "running"
    /\ budget = MaxListEvents

\* what lists, hides and filters, with the moves of the selection
NextList ==
    \/ KeyDown \/ KeyUp \/ KeyHidden
    \/ KeyMode \/ BufferChar
    \/ FilterCommit \/ FilterCancel

SpecList == InitList /\ [][NextList]_vars

(* The runs that create an entry, select it and send it to the trash *)
InitRound == Start /\ budget = MaxRoundEvents

NextRound ==
    \/ KeyDown \/ KeyUp \/ KeyHidden
    \/ KeyMode \/ BufferChar \/ CreateCommit
    \/ KeyDelete \/ ConfirmYes \/ ConfirmOther

SpecRound == InitRound /\ [][NextRound]_vars

----------------------------------------------------------------------------
(* The preview pane.  ui calls render_preview in every draw; it reads the   *)
(* selected entry and changes nothing.  An outcome is what the pane shows:  *)
(* a message, a text, or the decoded image.                                 *)

MAX_PREVIEW_SIZE_MB == 300

\* what the pane shows: the message msg, the text content, or the image
Outcome(k, m, c) == [kind |-> k, msg |-> m, content |-> c]

\* Path::extension of the path of the entry x: what follows the last '.'
\* of the file name, none when the name has no '.' past its first
\* character, none for ".."
extension(x) ==
    LET dots == {i \in 2..Len(x) : x[i] = "."}
        last == CHOOSE i \in dots : \A j \in dots : j <= i
    IN IF x = DotDot \/ dots = {} THEN [some |-> FALSE, ext |-> <<>>]
       ELSE [some |-> TRUE, ext |-> SubSeq(x, last + 1, Len(x))]

is_actual_image(x) ==
    /\ extension(x).some
    /\ to_lowercase(extension(x).ext) \in
         {<<"p", "n", "g">>, <<"j", "p", "g">>, <<"j", "p", "e", "g">>,
          <<"g", "i", "f">>, <<"b", "m", "p">>, <<"i", "c", "o">>,
          <<"t", "i", "f", "f">>, <<"w", "e", "b", "p">>}

is_media(x) ==
    /\ extension(x).some
    /\ to_lowercase(extension(x).ext) \in
         {<<"p", "n", "g">>, <<"j", "p", "g">>, <<"j", "p", "e", "g">>,
          <<"g", "i", "f">>, <<"b", "m", "p">>, <<"i", "c", "o">>,
          <<"t", "i", "f", "f">>, <<"w", "e", "b", "p">>,
          <<"m", "p", "4">>, <<"m", "k", "v">>, <<"a", "v", "i">>,
          <<"m", "o", "v">>, <<"w", "e", "b", "m">>}

\* the outcomes of render_preview for the selected entry.  fs::read gives
\* the bytes of a file and fails on a directory; whether the bytes decode
\* and whether the terminal prints the image is not fixed by the state.
\* The text is shown line by line, each line cut to the width of the pane.
render_preview(w) ==
    LET path == selected_path(w.app)
        Message(m) == Outcome("message", m, <<>>)
        Text(c) == Outcome("text", "", c)
        Image == Outcome("image", "", <<>>)
        At(r) ==
            IF selected_file(w.app)
                 = <<".", "w", "g", "e", "t", "-", "h", "s", "t", "s">>
            THEN {Message("Preview not available for .wget-hsts files.")}
            ELSE IF r.ok /\ Len(w.fs[r.at].content)
                              > MAX_PREVIEW_SIZE_MB * 1024 * 1024
            THEN {Message("File is too large for preview")}
            ELSE IF is_media(selected_file(w.app))
            THEN IF is_actual_image(selected_file(w.app))
                 THEN IF is_file(w.fs, path)
                      THEN {Image, Message("Image printing failed."),
                            Message("Could not decode image.")}
                      ELSE {Message("Could not read image file.")}
                 ELSE {Message("Video previews are currently disabled.")}
            ELSE IF is_dir(w.fs, path)
            THEN {Text(<<"D", "i", "r", "e", "c", "t", "o", "r", "y">>)}
            ELSE {Text(read_to_string(w.fs, path))}
    IN At(Resolve(w.fs, path))

\* events of a run over a directory drawn for the preview
MaxPreviewEvents == 3

\* the names of a directory drawn for the preview: no extension, an image
\* extension, a video extension, and the name on the deny-list
PreviewNames ==
    {<<"a">>, <<"a", ".", "B", "m", "p">>, <<"a", ".", "m", "p", "4">>,
     <<".", "w", "g", "e", "t", "-", "h", "s", "t", "s">>}

\* the program starts in a directory that holds any of PreviewNames, each
\* a directory, a file of text or a file with a NUL byte in front
InitPreview ==
    /\ \E kinds \in [PreviewNames -> {"none", "dir", "text", "nul"}] :
          /\ fs = (<<>> :> DirNode)
                    @@ [n \in {<<x>> : x \in {y \in PreviewNames :
                                                  kinds[y] # "none"}} |->
                          CASE kinds[n[1]] = "dir" -> DirNode
                            [] kinds[n[1]] = "text" -> FileNode(<<"x">>)
                            [] OTHER -> FileNode(<<"NUL", "x">>)]
          /\ app = New(fs, CwdPath)
    /\ trashed = <<>>
    /\ status = "running"
    /\ budget = MaxPreviewEvents

SpecPreview == InitPreview /\ [][NextList]_vars

----------------------------------------------------------------------------
(* Properties *)

Root == CwdPath
DirD == [abs |-> TRUE, comps |-> << <<"d">> >>, slash |-> FALSE]
NodeF == << <<"f">> >>
NodeDF == << <<"d">>, <<"f">> >>

\* the path on the clipboard, for states whose clipboard is not empty
Clip == app.clipboard[1]

\* where paste puts the entry on the clipboard
PasteTarget == join(app.path, file_name(Clip).name)

\* C1: the trash service is called only by the step that handles 'y' in
\* ConfirmDelete, and that step hands the selected entry to the trash
\* service; no other step of any handler calls it.
C1_TrashOnlyOnConfirmedYes ==
    [][/\ trashed' # trashed =>
            (app.mode = "ConfirmDelete" /\ status = "running" /\ ConfirmYes)
       /\ ConfirmYes => trashed' = Append(trashed, selected_path(app))]_vars

\* an entry has been handed to the trash service
C1_Witness == Len(trashed) = 1 /\ status = "running" /\ app.mode = "Normal"

\* C2: no handler makes the event loop panic: after every event handled in
\* a state the loop could draw, the loop is still running or was quit.
C2_FailuresNeverPanic ==
    [][(status = "running" /\ DrawOk) => status' # "panicked"]_vars

\* C3: a paste that fails leaves the clipboard and is_cut as they were and
\* the loop running, so that the paste can be tried again.
C3_FailedPasteKeepsClipboard ==
    [][(KeyPaste /\ \E before \in Befores(W) : paste(W, before).status = "panicked")
         => /\ status' = "running"
            /\ app'.clipboard = app.clipboard
            /\ app'.is_cut = app.is_cut]_vars

\* C4: after 'c' the clipboard holds the path of the selected entry and
\* is_cut is false, whatever the clipboard held before.
C4_CopyClearsIsCut ==
    [][KeyCopy => (app'.clipboard = <<selected_path(app)>> /\ ~app'.is_cut)]_vars

\* C5: a paste of a cut file, in a directory other than the file's own that
\* has no entry of the file's name, removes the file from where it was, puts
\* a file of that name and content in the current directory, shows it in the
\* listing and leaves the clipboard empty with is_cut false.
C5_CutPasteMovesFile ==
    [][(/\ KeyPaste
        /\ app.clipboard # <<>> /\ app.is_cut
        /\ is_file(fs, Clip)
        /\ Resolve(fs, parent(Clip).path).at # Resolve(fs, app.path).at
        /\ Resolve(fs, PasteTarget).at \notin DOMAIN fs)
         => /\ status' = "running"
            /\ Resolve(fs, Clip).at \notin DOMAIN fs'
            /\ is_file(fs', PasteTarget)
            /\ read_to_string(fs', PasteTarget) = read_to_string(fs, Clip)
            /\ \E i \in 1..Len(app'.files) : app'.files[i] = file_name(Clip).name
            /\ app'.clipboard = <<>>
            /\ ~app'.is_cut]_vars

\* the file f of the root has been cut and pasted into the directory d
C5_Witness ==
    /\ status = "running"
    /\ app.path = DirD
    /\ NodeF \notin DOMAIN fs
    /\ IsFileNode(fs, NodeDF) /\ fs[NodeDF].content = <<"x">>
    /\ app.clipboard = <<>> /\ ~app.is_cut
    /\ trashed = <<>>

\* C6: a paste of a copied directory that has a subdirectory succeeds: the
\* loop keeps running and the destination is a directory holding entries of
\* the names of the source's direct children, the subdirectories empty.
C6_DirectoryPasteIsShallow ==
    [][(/\ KeyPaste
        /\ app.clipboard # <<>> /\ ~app.is_cut
        /\ is_dir(fs, Clip) /\ file_name(Clip).has
        /\ \E x \in read_dir(fs, Clip).names : is_dir(fs, join(Clip, x)))
         => /\ status' = "running"
            /\ is_dir(fs', PasteTarget)
            /\ read_dir(fs, Clip).names \subseteq read_dir(fs', PasteTarget).names
            /\ \A x \in read_dir(fs, Clip).names :
                  is_dir(fs, join(Clip, x)) =>
                      read_dir(fs', join(PasteTarget, x)).names = {}]_vars

\* C7: the selection is an index of the listing:
\* 0 <= selected <= len(files) - 1.
C7_SelectedInRange == 0 <= app.selected /\ app.selected <= Len(app.files) - 1

C9_HistoryIndexInBounds ==
    /\ Len(app.history) >= 1
    /\ 0 <= app.history_index
    /\ app.history_index <= Len(app.history) - 1

\* a full history with the index back at its first element
C9_Witness == Len(app.history) = 4 /\ app.history_index = 0

\* C10: go_back at index 0 and go_forward at the last index change nothing;
\* otherwise go_back lowers and go_forward raises history_index by one, the
\* path becomes the history element at the new index and the history stays.
C10_BackForwardFrame ==
    /\ app.history_index = 0 => go_back(W) = W
    /\ app.history_index = Len(app.history) - 1 => go_forward(W) = W
    /\ app.history_index > 0 =>
          /\ go_back(W).app.history_index = app.history_index - 1
          /\ go_back(W).app.path = app.history[app.history_index]
          /\ go_back(W).app.history = app.history
    /\ app.history_index < Len(app.history) - 1 =>
          /\ go_forward(W).app.history_index = app.history_index + 1
          /\ go_forward(W).app.path = app.history[app.history_index + 2]
          /\ go_forward(W).app.history = app.history

\* a state with history on both sides of the index, reached by going back
C10_Witness ==
    /\ 0 < app.history_index /\ app.history_index < Len(app.history) - 1
    /\ app.path = app.history[app.history_index + 1]
    /\ Len(app.history) = 3

\* C11: in every reachable state the current path is the history element at
\* history_index: every navigation inside the browser pushes the path it
\* goes to, and back and forward take the path from the history.
C11_PathIsHistoryCurrent == app.path = app.history[app.history_index + 1]

\* C12: Enter on an action of the Actions panel leaves the state the
\* action's single-key shortcut ('x', 'c', 'p', 'd', 'r', 'n', '+', 'm', 'v',
\* 'e', Ctrl+f, Ctrl+r, 'h', 'q') leaves when pressed in Normal with the
\* focus on Files, and the focus is on Files afterwards.
C12_ActionEnterIsShortcut ==
    [][ActionsEnter =>
         LET Shortcut(w, n, before) ==
                 CASE n = 0 -> cut_selected(w)
                   [] n = 1 -> copy_selected(w)
                   [] n = 2 -> paste(w, before)
                   [] n = 3 -> delete_selected(w)
                   [] n = 4 -> SetMode(w, "Rename")
                   [] n = 5 -> SetMode(w, "Create")
                   [] n = 6 -> SetMode(w, "CreateDirectory")
                   [] n = 7 -> SetMode(w, "Move")
                   [] n = 8 -> view_file(w)
                   [] n = 9 -> edit_file(w)
                   [] n = 10 -> SetMode(w, "Find")
                   [] n = 11 -> SetMode(w, "Replace")
                   [] n = 12 -> toggle_hidden_files(w)
                   [] n = 13 -> Quit(w)
         IN /\ \E before \in (IF app.selected_action = 2 THEN Befores(W) ELSE {{}}) :
                 [app |-> app', fs |-> fs', trashed |-> trashed', status |-> status']
                   = Shortcut(SetFocus(W, "Files"), app.selected_action, before)
            /\ status' = "running" => app'.panel_focus = "Files"]_vars

\* C13: in ConfirmDelete 'y' hands the selected entry to the trash service
\* and, the delete done, sets the mode to Normal; every other key sets the
\* mode to Normal, calls no trash service and leaves the file system as it
\* is.
C13_ConfirmDeleteAlwaysLeaves ==
    [][/\ ConfirmYes =>
            /\ trashed' = Append(trashed, selected_path(app))
            /\ status' = "running" => app'.mode = "Normal"
       /\ (ConfirmNo \/ ConfirmOther) =>
            /\ app'.mode = "Normal"
            /\ trashed' = trashed
            /\ fs' = fs]_vars

\* C14: Enter in a text-input state (Editing, Create, Rename, Filter,
\* CreateDirectory, Move, Edit, Find, Replace) commits, and the commit done,
\* the buffer of that state is empty and the mode is Normal.
C14_EnterClearsBuffer ==
    [][LET Left(buffer) ==
               status' = "running" =>
                   (app'.mode = "Normal" /\ app'[buffer] = <<>>)
       IN /\ EditingEnter => Left("address_input")
          /\ \A m \in DOMAIN Buffer :
                (/\ app.mode = m
                 /\ \/ CreateCommit \/ RenameCommit \/ CreateDirectoryCommit
                    \/ MoveCommit \/ FilterCommit \/ EditCommit \/ SearchCommit)
                  => Left(Buffer[m])]_vars

\* C15: Escape in a text-input state sets the mode to Normal, leaves the file
\* system, the path, the history and the clipboard as they are, and discards
\* the buffer: it is empty, or (the address buffer) it is the text of the
\* current path when the state is entered next.
C15_EscapeDiscardsBuffer ==
    [][LET Frame ==
               /\ status' = "running" => app'.mode = "Normal"
               /\ fs' = fs
               /\ app'.path = app.path
               /\ app'.history = app.history
               /\ app'.history_index = app.history_index
               /\ app'.clipboard = app.clipboard
           \* the address buffer after the mode is entered again by '/'
           Reentered == [app' EXCEPT !.mode = "Editing",
                                     !.panel_focus = "TopBarButtons",
                                     !.top_bar_focus = "AddressBar"].address_input
       IN /\ EditingEsc =>
                /\ Frame
                /\ app'.address_input = <<>> \/ Reentered = to_str(app'.path)
          /\ \A m \in DOMAIN Buffer :
                (app.mode = m /\ (BufferEsc \/ FilterCancel)) =>
                    (Frame /\ app'[Buffer[m]] = <<>>)]_vars

\* C16: in every mode the key 'q' ends the event loop, except while an error
\* banner is shown.  (The code has no error banner: no state is excepted.)
C16_QuitInEveryMode ==
    [][(KeyQuit \/ KeyQElsewhere) => status' = "exited"]_vars

\* C17: when 'r' enters Rename from Normal the rename buffer holds the name
\* of the selected entry, and Enter on that unchanged name succeeds and
\* leaves the file system as it is.
C17_RenamePrefilled ==
    [][/\ (Focus("Files") /\ KeyMode /\ app'.mode = "Rename") =>
            app'.rename_input = selected_file(app)
       /\ (RenameCommit /\ app.rename_input = selected_file(app)) =>
            (status' = "running" /\ fs' = fs)]_vars

\* C18: whenever Editing (the address edit) is entered, by '/', by Enter on
\* the address bar or by a click on it, the address buffer is the text of
\* the current path.
C18_AddressBufferIsPath ==
    [][(app.mode # "Editing" /\ app'.mode = "Editing") =>
          app'.address_input = to_str(app'.path)]_vars

\* C19: whenever Create, CreateDirectory, Filter, Find or Replace is entered
\* from Normal, the buffer of that mode is empty.
C19_BufferEmptyOnEntry ==
    [][\A m \in {"Create", "CreateDirectory", "Filter", "Find", "Replace"} :
          (app.mode = "Normal" /\ app'.mode = m) => app'[Buffer[m]] = <<>>]_vars

\* C20: after a commit of Create, CreateDirectory, Rename or Move, or a
\* confirmed delete, that changed the file system, the listing is a fresh
\* listing of the current directory and the selection is at 0.
C20_CommitRelistsAndSelectsFirst ==
    [][(/\ \/ CreateCommit \/ CreateDirectoryCommit \/ RenameCommit
           \/ MoveCommit \/ ConfirmYes
        /\ fs' # fs
        /\ status' = "running")
         => /\ app'.files = get_files(fs', app'.path, app'.show_hidden).files
            /\ app'.selected = 0]_vars

\* the group of an entry of the listing of the current directory:
\* 0 "..", 1 hidden directories, 2 directories, 3 hidden files, 4 files
GroupOf(x) ==
    IF x = DotDot THEN 0
    ELSE (IF is_dir(fs, join(app.path, x)) THEN 1 ELSE 3)
           + (IF starts_with(x, ".") THEN 0 ELSE 1)

C22_ListingStartsWithDotDot == app.files # <<>> /\ app.files[1] = DotDot

\* C23: while the loop runs, no listing holds a "." entry, and with
\* show_hidden off no entry of the listing but ".." starts with '.'.
C23_HiddenEntriesExcluded ==
    status = "running" =>
        \A i \in 1..Len(app.files) :
            /\ app.files[i] # Dot
            /\ (~app.show_hidden /\ starts_with(app.files[i], ".")) =>
                  app.files[i] = DotDot

\* hidden entries toggled off where the hidden directory ".a" stands beside
\* the file "a": the listing is "..", "a"
C23_Witness ==
    /\ status = "running" /\ ~app.show_hidden
    /\ DOMAIN fs = {<<>>, << <<".", "a">> >>, << <<"a">> >>}
    /\ app.files = <<DotDot, <<"a">>>>

\* C24: in Normal mode with the file list focused, pressing 'h' twice leaves
\* show_hidden and the listing exactly as they were, also when the listing
\* is what a committed filter kept.
C24_ToggleTwiceRestoresListing ==
    Focus("Files") =>
        LET Twice(w) ==
                w.status = "running" =>
                    /\ w.app.show_hidden = app.show_hidden
                    /\ w.app.files = app.files
        IN Twice(toggle_hidden_files(toggle_hidden_files(W)))

\* C25: Enter in Filter mode leaves, in their order, exactly the entries of
\* the fresh listing of the directory that hold the typed text as a substring,
\* letter case told apart, and selects index 0; Esc in Filter mode brings
\* back the complete listing of the directory.
C25_FilterKeepsMatchesEscapeRestores ==
    /\ [][FilterCommit =>
            LET Holds(x) ==
                    \E k \in 0..(Len(x) - Len(app.filter_input)) :
                        \A i \in 1..Len(app.filter_input) :
                            x[k + i] = app.filter_input[i]
            IN /\ app'.files =
                    SelectSeq(get_files(fs, app.path, app.show_hidden).files,
                              Holds)
               /\ app'.selected = 0]_vars
    /\ [][FilterCancel =>
            app'.files = get_files(fs, app.path, app.show_hidden).files]_vars

\* the filter "a" committed where ".a", "a" and "Ab" are listed: ".a" and
\* "a" are kept in that order, "Ab" and ".." are not
C25_Witness ==
    /\ app.mode = "Normal" /\ app.filter_input = <<"a">>
    /\ << <<"A", "b">> >> \in DOMAIN fs
    /\ app.files = << <<".", "a">>, <<"a">> >>
    /\ app.selected = 0

\* a file name: not empty, without a separator, neither "." nor ".."
PlainName(x) ==
    /\ x # <<>> /\ x # Dot /\ x # DotDot
    /\ \A i \in 1..Len(x) : x[i] # "/"

\* the entry x is in the listing l
Listed(l, x) == \E i \in 1..Len(l) : l[i] = x

\* C26, as stated: for every file name x that the current directory does
\* not hold, Enter in Create mode with x typed leaves x in the listing; 'y'
\* on the selected entry x leaves a listing without x and one more trash
\* call, with the path of x; no other step calls the trash.
C26_CreateThenDeleteRoundTrip ==
    /\ [][(/\ CreateCommit /\ status' = "running"
            /\ PlainName(app.create_input)
            /\ app.path.comps \o <<app.create_input>> \notin DOMAIN fs)
           => Listed(app'.files, app.create_input)]_vars
    /\ [][(ConfirmYes /\ selected_file(app) # DotDot)
           => /\ status' = "running"
              /\ ~Listed(app'.files, selected_file(app))
              /\ trashed' = Append(trashed, selected_path(app))]_vars
    /\ [][trashed' # trashed => app.mode = "ConfirmDelete"]_vars

\* C26, amended: the same for the names x that the listing shows, that is
\* with show_hidden on or x not starting with '.'.
C26_ShownNameRoundTrip ==
    /\ [][(/\ CreateCommit
            /\ PlainName(app.create_input)
            /\ (app.show_hidden \/ ~starts_with(app.create_input, "."))
            /\ app.path.comps \o <<app.create_input>> \notin DOMAIN fs)
           => /\ status' = "running"
              /\ Listed(app'.files, app.create_input)
              /\ fs'[app.path.comps \o <<app.create_input>>]
                   = FileNode(<<>>)]_vars
    /\ [][(ConfirmYes /\ selected_file(app) # DotDot)
           => /\ status' = "running"
              /\ ~Listed(app'.files, selected_file(app))
              /\ selected_path(app).comps \notin DOMAIN fs'
              /\ trashed' = Append(trashed, selected_path(app))]_vars
    /\ [][trashed' # trashed => app.mode = "ConfirmDelete"]_vars

\* "a" was created beside "d" and "f", selected and sent to the trash: the
\* trash was called once, with /a, and the listing is "..", "d", "f" again
C26_Witness ==
    /\ status = "running" /\ app.mode = "Normal"
    /\ trashed = <<join(app.path, <<"a">>)>>
    /\ << <<"a">> >> \notin DOMAIN fs
    /\ app.files = <<DotDot, <<"d">>, <<"f">>>>

\* C27: Enter in Editing mode with the text of an existing directory sets
\* path to it, pushes it onto the history cut after the current index, lists
\* it and selects index 0; with any other text path, history, history index
\* and listing stay as they are; both ways the loop goes on, in Normal mode
\* with the file list focused.
C27_AddressCommitNavigatesOrResets ==
    [][EditingEnter =>
         LET typed == PathFrom(app.address_input)
         IN /\ status' = "running"
            /\ app'.mode = "Normal" /\ app'.panel_focus = "Files"
            /\ IF is_dir(fs, typed)
               THEN /\ app'.path = typed
                    /\ app'.history =
                         Append(SubSeq(app.history, 1, app.history_index + 1),
                                typed)
                    /\ app'.history_index = app.history_index + 1
                    /\ app'.files =
                         get_files(fs, typed, app.show_hidden).files
                    /\ app'.selected = 0
               ELSE /\ app'.path = app.path
                    /\ app'.history = app.history
                    /\ app'.history_index = app.history_index
                    /\ app'.files = app.files]_vars

\* "/." was typed in the address bar and committed at the root: the root
\* was pushed onto the history a second time
C27_Witness ==
    /\ app.mode = "Normal" /\ app.panel_focus = "Files"
    /\ app.address_input = <<"/", ".">>
    /\ app.history = <<CwdPath, CwdPath>> /\ app.history_index = 1
    /\ app.selected = 0

\* C28: Enter in Create mode with a text that ends with '/' leaves a
\* directory at that path and adds no file; with a file name that names no
\* directory it leaves an empty file of that name.
C28_SeparatorMakesDirectory ==
    /\ [][(/\ CreateCommit
            /\ app.create_input # <<>>
            /\ app.create_input[Len(app.create_input)] = "/")
           => /\ status' = "running"
              /\ is_dir(fs', join(app.path, app.create_input))
              /\ \A n \in DOMAIN fs' \ DOMAIN fs : fs'[n].kind = "dir"]_vars
    /\ [][(/\ CreateCommit
            /\ PlainName(app.create_input)
            /\ ~is_dir(fs, join(app.path, app.create_input)))
           => /\ status' = "running"
              /\ fs'[app.path.comps \o <<app.create_input>>]
                   = FileNode(<<>>)]_vars

\* C29: whenever the selected entry is a regular file that is not on the
\* deny-list and not over the size threshold, and a NUL byte is among its
\* first 1024 bytes, the preview is the message "binary file", whatever the
\* extension, and never the content shown as text.
C29_NulPreviewsAsBinary ==
    (/\ status = "running" /\ DrawOk
     /\ is_file(fs, selected_path(app))
     /\ selected_file(app) # <<".", "w", "g", "e", "t", "-", "h", "s", "t", "s">>
     /\ \E i \in 1..Len(read_to_string(fs, selected_path(app))) :
            i <= 1024 /\ read_to_string(fs, selected_path(app))[i] = "NUL")
    => \A o \in render_preview(W) :
            o.kind = "message" /\ o.msg = "binary file"

\* C30: in every reachable state selected_action is between 0 and
\* ActionCount - 1; Up and Down with the action list focused move it by at
\* most one; and Up and Down anywhere but in Normal mode with the file list
\* focused leave the file selection as it is.
C30_ActionIndexInRange ==
    /\ [](app.selected_action \in 0..(ActionCount - 1))
    /\ [][(ActionsUp \/ ActionsDown) =>
            /\ app'.selected_action - app.selected_action \in {-1, 0, 1}
            /\ app'.selected = app.selected]_vars
    /\ [][KeyUpDownElsewhere => app'.selected = app.selected]_vars

\* the last action is selected in the focused action list while the second
\* entry of the file list is selected
C30_Witness ==
    /\ status = "running" /\ app.mode = "Normal"
    /\ app.panel_focus = "Actions"
    /\ app.selected_action = ActionCount - 1
    /\ app.selected = 1

\* C31: no operation that changes the file system takes the ".." entry as
\* its target: not 'y' in ConfirmDelete, not Enter in Rename, Move or Edit,
\* and not the removal of the source by the paste of a cut entry.
C31_DotDotNeverTarget ==
    /\ [][(ConfirmYes \/ RenameCommit \/ MoveCommit \/ EditCommit)
           => selected_file(app) # DotDot]_vars
    /\ [][(KeyPaste /\ app.is_cut /\ app.clipboard # <<>>)
           => app.clipboard[1].comps[Len(app.clipboard[1].comps)] # DotDot]_vars

\* C32: while the mode is ConfirmDelete, Rename or Move, no event but the
\* one that commits or cancels the operation changes the selection, the
\* listing or the current path, so that 'y' and Enter act on the entry that
\* was selected when the mode was entered.
C32_PendingTargetIsStable ==
    [][(/\ app.mode \in {"ConfirmDelete", "Rename", "Move"}
        /\ ~(ConfirmYes \/ ConfirmNo \/ RenameCommit \/ MoveCommit
               \/ BufferEsc))
       => /\ app'.selected = app.selected
          /\ app'.files = app.files
          /\ app'.path = app.path]_vars

\* C33: in every reachable state is_cut implies that the clipboard holds a
\* path; 'p' with an empty clipboard changes no field of the browser and
\* nothing in the file system; and 'c' followed by 'p' leaves the clipboard
\* as 'c' set it.
C33_ClipboardConsistent ==
    /\ [](app.is_cut => app.clipboard # <<>>)
    /\ [][(KeyPaste /\ app.clipboard = <<>>)
           => (app' = app /\ fs' = fs /\ trashed' = trashed)]_vars
    /\ [](Focus("Files") =>
            LET Kept(copied) ==
                    \A before \in Befores(copied) :
                        paste(copied, before).app.clipboard
                          = copied.app.clipboard
            IN Kept(copy_selected(W)))

\* C34: in every reachable state cursor_position is between 0 and the
\* length of address_input.
C34_CursorWithinAddress ==
    /\ 0 <= app.cursor_position
    /\ app.cursor_position <= Len(app.address_input)

\* C35: in every reachable state of the running program whose mode is not
\* Normal, the key that leaves the mode (Esc; 'n' in ConfirmDelete) is
\* handled and sets the mode to Normal with the program still running; in
\* every reachable state in Normal mode the file list is focused or Esc is
\* handled and focuses it.  A key is handled when the draw before it does
\* not end the program.
C35_NoModeIsATrap ==
    status = "running" =>
        LET Left(w) ==
                DrawOk /\ w.status = "running" /\ w.app.mode = "Normal"
        IN CASE app.mode = "Normal" ->
                  \/ app.panel_focus = "Files"
                  \/ Left(BackToFiles(W))
                       /\ BackToFiles(W).app.panel_focus = "Files"
             [] app.mode = "Editing" -> Left(BackToFiles(W))
             [] app.mode = "ConfirmDelete" -> Left(cancel_delete(W))
             [] app.mode \in {"View", "Find", "Replace"} ->
                  Left(SetMode(W, "Normal"))
             [] app.mode = "Filter" ->
                  Left(ToNormal(Relist([W EXCEPT !.app.filter_input = <<>>])))
             [] OTHER ->
                  Left([W EXCEPT !.app[Buffer[app.mode]] = <<>>,
                                 !.app.mode = "Normal"])

====
